---- MODULE Spec2Model ----
(***************************************************************************)
(* A model of the fireplace relay controller.                              *)
(*                                                                         *)
(*   - src/fireplace.py: one CLI invocation.  main() is modelled as the    *)
(*     straight-line list of steps it executes for the parsed arguments    *)
(*     (Relay construction, relay.open(), relay.close(),                   *)
(*     _sleep_with_sigint(), _guard_after_boot(), the indefinite-hold      *)
(*     loop) and a program counter walking that list.  SIGINT is an        *)
(*     asynchronous action: the handler installed in __main__ throws       *)
(*     KeyboardInterrupt at whatever step is running.                      *)
(*   - src/web_ui.py: the supervisor, its lock, the shared hold process    *)
(*     reference and the CLI processes it spawns.                          *)
(*                                                                         *)
(* All durations are in ticks of 50 ms (0.2 s = 4, 0.25 s = 5, 1 s = 20).  *)
(* An Optional value is <<>> for None and <<v>> for a value v.             *)
(***************************************************************************)
EXTENDS Integers, Sequences, FiniteSets, TLC

VARIABLES
    args,        \* the parsed command line of the invocation (argparse Namespace)
    pc,          \* index of the step of main() being executed
    exit_code,   \* None while running, <<status>> once the process has exited
    raised,      \* the exception that ended the invocation, "none" otherwise
    level,       \* per channel: the state last written to the relay
    relays,      \* channels for which a Relay object has been constructed
    trace,       \* the hardware operations and waits issued so far, in order
    uptime,      \* the system clock (drives /proc/uptime and time.monotonic)
    sleep_end,   \* deadline `end` of the running _sleep_with_sigint, else None
    interrupts,  \* the SIGINTs delivered so far: where each one landed
    absorbed,    \* number of KeyboardInterrupts caught by an indefinite-hold loop
    notes,       \* diagnostic lines printed so far
    failed_at    \* None, or <<i>> when the write trace[i] raised

cliVars == <<args, pc, exit_code, raised, level, relays, trace, uptime,
             sleep_end, interrupts, absorbed, notes, failed_at>>

VARIABLES
    lock,         \* _lock: 0 when free, else the request thread holding it
    hold_proc,    \* _hold_proc: None or <<pid>> of the Popen'ed hold process
    last_result,  \* _last_result: None or <<RunResult>>
    children,     \* the CLI processes spawned so far, by pid
    chan,         \* the state last written to the low_flame channel
    tpc,          \* per request thread: its position in run_action
    tlocal,       \* per request thread: its form fields and local variables
    served        \* number of requests accepted so far

webVars == <<lock, hold_proc, last_result, children, chan, tpc, tlocal, served>>

vars == <<cliVars, webVars>>

None == <<>>
Some(v) == <<v>>
Max(a, b) == IF a >= b THEN a ELSE b
Min(a, b) == IF a <= b THEN a ELSE b

(***************************************************************************)
(* Bounds of the model.                                                    *)
(***************************************************************************)
MaxInterrupts == 1      \* SIGINTs delivered to one invocation
MaxGuard == 6           \* the positive --boot-guard-seconds value tried
MaxHold == 5            \* the positive --hold-seconds value tried
MaxUptime == 40         \* the indefinite-hold loop stops advancing the clock here
MaxPins == 2            \* longest probe --pins list
MaxRequests == 3        \* requests the web server accepts

(***************************************************************************)
(* Program constants, in ticks.                                            *)
(***************************************************************************)
SLICE == 4              \* time.sleep(min(0.2, remaining))
LOOP_SLEEP == 20        \* time.sleep(1) of the indefinite-hold loop
MAINTAINED_OPEN == 20   \* _sleep_with_sigint(1.0)
MAINTAINED_CLOSE == 5   \* _sleep_with_sigint(0.250)
MAINTAINED_REOPEN == 5  \* _sleep_with_sigint(0.250)
EXIT_INTERRUPTED == 130 \* raise SystemExit(130)

KNOWN_RELAYS == [low_flame |-> 4, high_flame |-> 22, aux_1 |-> 6, aux_2 |-> 26]

Pins == {KNOWN_RELAYS.low_flame, KNOWN_RELAYS.high_flame,
         KNOWN_RELAYS.aux_1, KNOWN_RELAYS.aux_2}

\* Backward-compatible / convenience aliases.
RELAY_ALIASES ==
    ("main_burner" :> "low_flame") @@ ("main" :> "low_flame")
    @@ ("relay_gpio4" :> "low_flame") @@ ("relay_gpio22" :> "high_flame")
    @@ ("relay_gpio6" :> "aux_1") @@ ("relay_gpio26" :> "aux_2")
    @@ ("gpio4" :> "low_flame") @@ ("gpio22" :> "high_flame")
    @@ ("gpio6" :> "aux_1") @@ ("gpio26" :> "aux_2")
    @@ ("r4" :> "low_flame") @@ ("r22" :> "high_flame")
    @@ ("r6" :> "aux_1") @@ ("r26" :> "aux_2")

(***************************************************************************)
(* Channel references.  A reference is None, an int (argparse has applied  *)
(* _parse_pin to --pin-main / --pin-high) or a string.  The strings tried  *)
(* and what str.strip() and int() make of them are tabulated: int(s) is    *)
(* defined on the integer literals and raises ValueError elsewhere.        *)
(***************************************************************************)
NoRef == [kind |-> "none", s |-> "", n |-> 0]
StrRef(s) == [kind |-> "str", s |-> s, n |-> 0]
IntRef(n) == [kind |-> "int", s |-> "", n |-> n]

Padded == (" low_flame " :> "low_flame") @@ (" 22 " :> "22") @@ ("  " :> "")

strip(s) == IF s \in DOMAIN Padded THEN Padded[s] ELSE s

IntLiterals ==
    ("4" :> 4) @@ ("22" :> 22) @@ ("6" :> 6) @@ ("26" :> 26)
    @@ ("0" :> 0) @@ ("17" :> 17) @@ ("-5" :> -5)

\* every channel id an invocation can end up driving
ChannelIds == Pins \cup {IntLiterals[s] : s \in DOMAIN IntLiterals}

\* the outcome of resolving a reference: a pin, None, or SystemExit("Unknown relay")
Resolved(p) == [unknown |-> FALSE, pin |-> p]
UnknownRelay == [unknown |-> TRUE, pin |-> None]

\* a resolver that looks names up in the canonical table only
resolve_relay_ref_no_alias(value) ==
    IF value.kind = "none" THEN Resolved(None)
    ELSE IF value.kind = "int" THEN Resolved(Some(value.n))
    ELSE LET s == strip(value.s)
         IN  IF s = "" THEN Resolved(None)
             ELSE IF s \in DOMAIN KNOWN_RELAYS THEN Resolved(Some(KNOWN_RELAYS[s]))
             ELSE IF s \in DOMAIN IntLiterals THEN Resolved(Some(IntLiterals[s]))
             ELSE UnknownRelay

\* a resolver that treats an unknown name as an absent reference
resolve_relay_ref_lenient(value) ==
    IF value.kind = "none" THEN Resolved(None)
    ELSE IF value.kind = "int" THEN Resolved(Some(value.n))
    ELSE LET s == strip(value.s)
             c == IF s \in DOMAIN RELAY_ALIASES THEN RELAY_ALIASES[s] ELSE s
         IN  IF s = "" THEN Resolved(None)
             ELSE IF c \in DOMAIN KNOWN_RELAYS THEN Resolved(Some(KNOWN_RELAYS[c]))
             ELSE IF c \in DOMAIN IntLiterals THEN Resolved(Some(IntLiterals[c]))
             ELSE Resolved(None)

resolve_relay_ref(value) ==
    IF value.kind = "none" THEN Resolved(None)
    ELSE IF value.kind = "int" THEN Resolved(Some(value.n))
    ELSE LET s == strip(value.s)
             c == IF s \in DOMAIN RELAY_ALIASES THEN RELAY_ALIASES[s] ELSE s
         IN  IF s = "" THEN Resolved(None)
             ELSE IF c \in DOMAIN KNOWN_RELAYS THEN Resolved(Some(KNOWN_RELAYS[c]))
             ELSE IF c \in DOMAIN IntLiterals THEN Resolved(Some(IntLiterals[c]))
             ELSE UnknownRelay

\* x or y: y is evaluated only when x is falsy (None or 0); an exception
\* raised while evaluating x propagates
OrElse(x, y) ==
    IF x.unknown THEN x
    ELSE IF x.pin # None /\ x.pin[1] # 0 THEN x
    ELSE y

main_pin(a) == OrElse(resolve_relay_ref(a.main_relay), resolve_relay_ref(a.pin_main))
high_pin(a) == OrElse(resolve_relay_ref(a.high_relay), resolve_relay_ref(a.pin_high))

\* [_parse_pin(p) for p in pins]: None when an entry is not an integer
parse_pins(pins) ==
    IF \E i \in DOMAIN pins : pins[i] \notin DOMAIN IntLiterals THEN None
    ELSE Some([i \in DOMAIN pins |-> IntLiterals[pins[i]]])

Commands == {"ignite", "on", "off", "high", "low", "pulse-high", "probe"}

(***************************************************************************)
(* One step of main(): op is the statement, pin the channel it acts on,    *)
(* secs its duration argument (0 where the statement has none).            *)
(***************************************************************************)
Ins(op, pin, secs) == [op |-> op, pin |-> pin, secs |-> secs]

RelayCtor(pin) == Ins("ctor", pin, 0)
RelayOpen(pin) == Ins("open", pin, 0)
RelayClose(pin) == Ins("close", pin, 0)
Sleep(secs) == Ins("sleep", 0, secs)
Say == Ins("say", 0, 0)
Forever == Ins("forever", 0, 0)

\* a pulse that re-opens before it waits
cmd_pulse_early_open(relay, pulse_ms) ==
    << RelayOpen(relay), RelayClose(relay), RelayOpen(relay), Sleep(pulse_ms) >>

\* _sleep_with_sigint(pulse_ms / 1000.0) between a close and the trailing open
cmd_pulse(relay, pulse_ms) ==
    << RelayOpen(relay), RelayClose(relay), Sleep(pulse_ms), RelayOpen(relay) >>

\* hold_seconds is None: message, then try: while True: time.sleep(1)
\* except KeyboardInterrupt: pass
HoldWait(hold_seconds) ==
    IF hold_seconds = None THEN << Say, Forever >> ELSE << Sleep(hold_seconds[1]) >>

cmd_hold(relay, hold_seconds) ==
    << RelayOpen(relay), RelayClose(relay) >> \o HoldWait(hold_seconds)
        \o << RelayOpen(relay) >>

\* a maintained call whose first two waits are exchanged
cmd_maintained_exchanged(relay, hold_seconds) ==
    << RelayOpen(relay), Sleep(MAINTAINED_CLOSE),
       RelayClose(relay), Sleep(MAINTAINED_OPEN),
       RelayOpen(relay), Sleep(MAINTAINED_REOPEN),
       RelayClose(relay) >> \o HoldWait(hold_seconds) \o << RelayOpen(relay) >>

cmd_maintained(relay, hold_seconds) ==
    << RelayOpen(relay), Sleep(MAINTAINED_OPEN),
       RelayClose(relay), Sleep(MAINTAINED_CLOSE),
       RelayOpen(relay), Sleep(MAINTAINED_REOPEN),
       RelayClose(relay) >> \o HoldWait(hold_seconds) \o << RelayOpen(relay) >>

\* raise SystemExit(message), or an uncaught argparse.ArgumentTypeError
SystemExit == << Ins("exit", 0, 0) >>

\* a probe that moves on to the next pin without re-opening the current one
ProbeOne_no_reopen(pin, a) ==
    LET close_for == IF a.close_seconds # None THEN a.close_seconds[1] ELSE a.pulse_ms
    IN  << RelayCtor(pin), RelayOpen(pin) >>
        \o (IF a.open_seconds > 0 THEN << Say, Sleep(a.open_seconds) >> ELSE << >>)
        \o << RelayClose(pin), Say, Sleep(close_for) >>
        \o (IF a.post_open_seconds > 0 THEN << Say, Sleep(a.post_open_seconds) >> ELSE << >>)

\* a probe that closes for the pulse width even when --close-seconds is given
ProbeOne_pulse_only(pin, a) ==
    << RelayCtor(pin), RelayOpen(pin) >>
        \o (IF a.open_seconds > 0 THEN << Say, Sleep(a.open_seconds) >> ELSE << >>)
        \o << RelayClose(pin), Say, Sleep(a.pulse_ms), RelayOpen(pin) >>
        \o (IF a.post_open_seconds > 0 THEN << Say, Sleep(a.post_open_seconds) >> ELSE << >>)

\* the body of `for pin in pins:` for one pin
ProbeOne(pin, a) ==
    LET close_for == IF a.close_seconds # None THEN a.close_seconds[1] ELSE a.pulse_ms
    IN  << RelayCtor(pin), RelayOpen(pin) >>
        \o (IF a.open_seconds > 0 THEN << Say, Sleep(a.open_seconds) >> ELSE << >>)
        \o << RelayClose(pin), Say, Sleep(close_for), RelayOpen(pin) >>
        \o (IF a.post_open_seconds > 0 THEN << Say, Sleep(a.post_open_seconds) >> ELSE << >>)

RECURSIVE ProbeLoop(_, _)
ProbeLoop(pins, a) ==
    IF pins = << >> THEN << >>
    ELSE ProbeOne(Head(pins), a) \o ProbeLoop(Tail(pins), a)

cmd_probe(a) ==
    IF a.pins = << >> THEN SystemExit
    ELSE << Say >> \o ProbeLoop(a.pins, a)

needs_main(a) == a.cmd \in {"ignite", "on", "off"}
needs_high(a) == a.cmd \in {"high", "low", "pulse-high"}

\* a dispatch that guards the activating commands only
GuardedCommands_activating == {"ignite", "on"}

\* Only apply the IPI boot guard for commands that interact with the fireplace call.
GuardedCommands == {"ignite", "on", "off"}

BootGuard(a) == IF a.cmd \in GuardedCommands THEN << Ins("guard", 0, 0) >> ELSE << >>

Dispatch(a, main_relay, high_relay) ==
    CASE a.cmd = "ignite" ->
            IF a.maintained THEN cmd_maintained(main_relay, a.hold_seconds)
            ELSE cmd_pulse(main_relay, a.pulse_ms)
      [] a.cmd = "on" -> cmd_hold(main_relay, a.hold_seconds)
      [] a.cmd = "off" -> << RelayOpen(main_relay) >>
      [] a.cmd = "high" -> cmd_hold(high_relay, a.hold_seconds)
      [] a.cmd = "low" -> << RelayOpen(high_relay) >>
      [] a.cmd = "pulse-high" -> cmd_pulse(high_relay, a.pulse_ms)

\* the steps main(argv) executes; running off the end is `return 0`
main(a) ==
    IF a.cmd = "probe"
    THEN IF parse_pins(a.pins) = None THEN SystemExit
         ELSE cmd_probe([a EXCEPT !.pins = parse_pins(a.pins)[1]])
    ELSE IF main_pin(a).unknown \/ high_pin(a).unknown THEN SystemExit
    ELSE IF needs_main(a) /\ main_pin(a).pin = None THEN SystemExit
    ELSE IF needs_high(a) /\ high_pin(a).pin = None THEN SystemExit
    ELSE LET main_relay == IF needs_main(a) THEN main_pin(a).pin[1] ELSE 0
             high_relay == IF needs_high(a) THEN high_pin(a).pin[1] ELSE 0
         IN  (IF needs_main(a) THEN << RelayCtor(main_relay) >> ELSE << >>)
             \o (IF needs_high(a) THEN << RelayCtor(high_relay) >> ELSE << >>)
             \o (IF needs_main(a) THEN << RelayOpen(main_relay) >> ELSE << >>)
             \o (IF needs_high(a) THEN << RelayOpen(high_relay) >> ELSE << >>)
             \o BootGuard(a)
             \o Dispatch(a, main_relay, high_relay)


(***************************************************************************)
(* web_ui.py: request threads and their locals                             *)
(***************************************************************************)
Threads == {1, 2}        \* two requests can be in run_action at once
Actions == {"ignite_pulse", "start_hold", "stop", "unknown"}
NoLocals == [action |-> "", hold_seconds |-> "", pid |-> 0, result |-> None,
             sync |-> None]

(***************************************************************************)
(* The command lines tried.  Options a command does not read keep one      *)
(* value.  hold_seconds, close_seconds: Optional.                          *)
(***************************************************************************)
PulseChoices == {5, 6}                         \* 250 ms and 300 ms
HoldChoices == {None, Some(0), Some(MaxHold)}
BootGuardChoices == {0, MaxGuard}
ProbeSecondsChoices == {0, 2}
PostOpenChoices == {0, 10}                     \* 10: the default 0.5 s

RECURSIVE ListsUpTo(_, _)
ListsUpTo(S, n) ==
    IF n = 0 THEN {<< >>}
    ELSE LET shorter == ListsUpTo(S, n - 1)
         IN  shorter \cup {Append(l, p) : l \in shorter, p \in S}

\* --pins after split(",") and strip(): the default "4,22,6,26"
DefaultProbePins == << "4", "22", "6", "26" >>

PinLists ==
    ListsUpTo({"4", "22"}, MaxPins) \cup {<< "4", "bogus" >>}

Namespace(cmd, maintained, hold, pulse, dry, guard, readable) ==
    [cmd |-> cmd, maintained |-> maintained, hold_seconds |-> hold,
     pulse_ms |-> pulse, dry_run |-> dry, boot_guard_seconds |-> guard,
     uptime_readable |-> readable,
     main_relay |-> StrRef("low_flame"), pin_main |-> NoRef,
     high_relay |-> StrRef("high_flame"), pin_high |-> NoRef,
     pins |-> << >>, open_seconds |-> 0, close_seconds |-> None,
     post_open_seconds |-> 0]

PatternArgs ==
    {Namespace("ignite", FALSE, None, p, d, g, r) :
        p \in PulseChoices, d \in BOOLEAN, g \in BootGuardChoices, r \in BOOLEAN}
    \cup {Namespace("ignite", TRUE, h, p, d, g, r) :
        h \in HoldChoices, p \in PulseChoices, d \in BOOLEAN,
        g \in BootGuardChoices, r \in BOOLEAN}
    \cup {Namespace("on", FALSE, h, 5, d, g, r) :
        h \in HoldChoices, d \in BOOLEAN, g \in BootGuardChoices, r \in BOOLEAN}
    \cup {Namespace("off", FALSE, None, 5, d, g, r) :
        d \in BOOLEAN, g \in BootGuardChoices, r \in BOOLEAN}
    \cup {Namespace("high", FALSE, h, 5, d, g, r) :
        h \in HoldChoices, d \in BOOLEAN, g \in BootGuardChoices, r \in BOOLEAN}
    \cup {Namespace("low", FALSE, None, 5, d, g, r) :
        d \in BOOLEAN, g \in BootGuardChoices, r \in BOOLEAN}
    \cup {Namespace("pulse-high", FALSE, None, p, d, g, r) :
        p \in PulseChoices, d \in BOOLEAN, g \in BootGuardChoices, r \in BOOLEAN}

ProbeArgs ==
    {[Namespace("probe", FALSE, None, p, d, MaxGuard, TRUE) EXCEPT
        !.pins = l, !.open_seconds = o, !.close_seconds = c, !.post_open_seconds = q] :
        p \in PulseChoices, d \in BOOLEAN, l \in PinLists,
        o \in ProbeSecondsChoices, c \in {None, Some(3)}, q \in PostOpenChoices}
    \cup {[Namespace("probe", FALSE, None, 6, d, MaxGuard, TRUE) EXCEPT
            !.pins = DefaultProbePins, !.post_open_seconds = 10] : d \in BOOLEAN}
    \cup {[Namespace("probe", FALSE, None, 6, TRUE, MaxGuard, TRUE) EXCEPT
            !.pins = << "4" >>, !.main_relay = StrRef("bogus")]}

(***************************************************************************)
(* Command lines that vary the channel references: --main-relay and        *)
(* --pin-main with `off`, --high-relay and --pin-high with `low`.          *)
(***************************************************************************)
RelayNames == DOMAIN KNOWN_RELAYS \cup DOMAIN RELAY_ALIASES
RefStrings == RelayNames \cup DOMAIN IntLiterals \cup DOMAIN Padded \cup {"", "bogus"}
RelayRefChoices == {NoRef} \cup {StrRef(s) : s \in RefStrings}
PinRefChoices == {NoRef, IntRef(22), IntRef(0), IntRef(-5)}

RefArgs ==
    {[Namespace("off", FALSE, None, 5, d, 0, TRUE) EXCEPT
        !.main_relay = m, !.pin_main = n, !.high_relay = h] :
        d \in BOOLEAN, m \in RelayRefChoices, n \in PinRefChoices,
        h \in {NoRef, StrRef("high_flame"), StrRef("bogus")}}
    \cup {[Namespace("low", FALSE, None, 5, TRUE, 0, TRUE) EXCEPT
        !.main_relay = m, !.high_relay = h, !.pin_high = n] :
        m \in {NoRef, StrRef("bogus")},
        h \in {NoRef, StrRef("r22"), StrRef("0"), StrRef("bogus")},
        n \in PinRefChoices}

CommandLines == PatternArgs \cup ProbeArgs \cup RefArgs

\* the steps of the invocation
Program == main(args)
Running == exit_code = None
AtStep == Running /\ pc <= Len(Program)
Cur == Program[pc]

\* system uptime when the invocation starts
UptimeChoices == {0, MaxGuard - 2, MaxGuard + 1}

\* the supervisor before its first request
WebIdle ==
    /\ lock = 0
    /\ hold_proc = None
    /\ last_result = None
    /\ children = << >>
    /\ chan = "open"
    /\ tpc = [t \in Threads |-> "idle"]
    /\ tlocal = [t \in Threads |-> NoLocals]
    /\ served = 0

Init ==
    /\ args \in CommandLines
    /\ uptime \in UptimeChoices
    /\ pc = 1
    /\ exit_code = None
    /\ raised = "none"
    /\ level = [p \in ChannelIds |-> "open"]
    /\ relays = {}
    /\ trace = << >>
    /\ sleep_end = None
    /\ interrupts = << >>
    /\ absorbed = 0
    /\ notes = {}
    /\ failed_at = None
    /\ WebIdle

(***************************************************************************)
(* Relay.__init__: simulated mode only records the configuration; live     *)
(* mode binds OutputDevice(pin, initial_value=False), which may raise.     *)
(***************************************************************************)
\* the status the process exits with: __main__ turns KeyboardInterrupt into
\* SystemExit(130); any other uncaught exception, and SystemExit(message), give 1
ExitStatus_swallowed(exc) ==
    CASE exc \in {"none", "KeyboardInterrupt"} -> 0
      [] OTHER -> 1

ExitStatus(exc) ==
    CASE exc = "none" -> 0
      [] exc = "KeyboardInterrupt" -> EXIT_INTERRUPTED
      [] OTHER -> 1

Raise(exc) ==
    /\ raised' = exc
    /\ exit_code' = Some(ExitStatus(exc))
    /\ sleep_end' = None

ExecCtor ==
    /\ AtStep /\ Cur.op = "ctor"
    /\ \/ /\ relays' = relays \cup {Cur.pin}
          /\ level' = IF args.dry_run THEN level
                      ELSE [level EXCEPT ![Cur.pin] = "open"]
          /\ pc' = pc + 1
          /\ UNCHANGED <<exit_code, raised, sleep_end>>
       \/ /\ ~args.dry_run
          /\ Raise("HardwareUnavailableError")
          /\ UNCHANGED <<relays, level, pc>>
    /\ UNCHANGED <<args, trace, uptime, interrupts, absorbed, notes, failed_at>>
    /\ UNCHANGED webVars

(***************************************************************************)
(* Relay.open / Relay.close.  Simulated mode logs the state; live mode     *)
(* calls self._dev.off() / self._dev.on(), whose exception propagates: the *)
(* pin is then at either level.                                            *)
(***************************************************************************)
Target(op) == IF op = "open" THEN "open" ELSE "closed"

ExecWrite ==
    /\ AtStep /\ Cur.op \in {"open", "close"}
    /\ trace' = Append(trace, Cur)
    /\ \/ /\ level' = [level EXCEPT ![Cur.pin] = Target(Cur.op)]
          /\ pc' = pc + 1
          /\ UNCHANGED <<exit_code, raised, sleep_end, failed_at>>
       \/ /\ ~args.dry_run
          /\ Raise("HardwareWriteError")
          /\ failed_at' = Some(Len(trace'))
          /\ level' \in {level, [level EXCEPT ![Cur.pin] = Target(Cur.op)]}
          /\ UNCHANGED pc
    /\ UNCHANGED <<args, relays, uptime, interrupts, absorbed, notes>>
    /\ UNCHANGED webVars

(***************************************************************************)
(* _sleep_with_sigint(seconds): end = now + max(0.0, seconds), then slices *)
(* of min(0.2, remaining) until remaining <= 0.                            *)
(***************************************************************************)
\* a timer that sleeps for at least one slice
SleepDeadline_one_slice(now, seconds) == now + Max(SLICE, seconds)

SleepDeadline(now, seconds) == now + Max(0, seconds)

ExecSleep ==
    /\ AtStep /\ Cur.op = "sleep" /\ sleep_end = None
    /\ sleep_end' = Some(SleepDeadline(uptime, Cur.secs))
    /\ trace' = Append(trace, Cur)
    /\ UNCHANGED <<args, pc, exit_code, raised, level, relays, uptime,
                   interrupts, absorbed, notes, failed_at>>
    /\ UNCHANGED webVars

SleepSlice ==
    /\ AtStep /\ sleep_end # None
    /\ LET remaining == sleep_end[1] - uptime
       IN  IF remaining <= 0
           THEN /\ sleep_end' = None
                /\ pc' = pc + 1
                /\ UNCHANGED uptime
           ELSE /\ uptime' = uptime + Min(SLICE, remaining)
                /\ UNCHANGED <<sleep_end, pc>>
    /\ UNCHANGED <<args, exit_code, raised, level, relays, trace,
                   interrupts, absorbed, notes, failed_at>>
    /\ UNCHANGED webVars

(***************************************************************************)
(* _read_uptime_seconds and _guard_after_boot                              *)
(***************************************************************************)
ReadUptimeSeconds == IF args.uptime_readable THEN Some(uptime) ELSE None

\* a guard that stops one tick short of the minimum
GuardRemaining_short(min_uptime_seconds, up) == min_uptime_seconds - up - 1

GuardRemaining(min_uptime_seconds, up) == min_uptime_seconds - up

\* a guard that reports the skip in both modes
SkipNote_always(dry_run) == {"cannot read /proc/uptime; skipping boot guard"}

SkipNote(dry_run) == IF dry_run THEN {"cannot read /proc/uptime; skipping boot guard"} ELSE {}

ExecGuard ==
    /\ AtStep /\ Cur.op = "guard" /\ sleep_end = None
    /\ LET min_uptime_seconds == args.boot_guard_seconds
           up == ReadUptimeSeconds
       IN  IF min_uptime_seconds <= 0
           THEN /\ pc' = pc + 1
                /\ UNCHANGED <<notes, sleep_end, trace>>
           ELSE IF up = None
           THEN /\ notes' = notes \cup SkipNote(args.dry_run)
                /\ pc' = pc + 1
                /\ UNCHANGED <<sleep_end, trace>>
           ELSE LET remaining == GuardRemaining(min_uptime_seconds, up[1])
                IN  IF remaining > 0
                    THEN /\ notes' = notes \cup {"Boot guard: waiting"}
                         /\ sleep_end' = Some(SleepDeadline(uptime, remaining))
                         /\ trace' = Append(trace, Sleep(remaining))
                         /\ UNCHANGED pc
                    ELSE /\ pc' = pc + 1
                         /\ UNCHANGED <<notes, sleep_end, trace>>
    /\ UNCHANGED <<args, exit_code, raised, level, relays, uptime,
                   interrupts, absorbed, failed_at>>
    /\ UNCHANGED webVars

(***************************************************************************)
(* print(...) between two steps, and the indefinite-hold loop              *)
(* try: while True: time.sleep(1)                                          *)
(***************************************************************************)
ExecSay ==
    /\ AtStep /\ Cur.op = "say"
    /\ pc' = pc + 1
    /\ UNCHANGED <<args, exit_code, raised, level, relays, trace, uptime,
                   sleep_end, interrupts, absorbed, notes, failed_at>>
    /\ UNCHANGED webVars

ExecForever ==
    /\ AtStep /\ Cur.op = "forever"
    /\ uptime + LOOP_SLEEP <= MaxUptime
    /\ uptime' = uptime + LOOP_SLEEP
    /\ UNCHANGED <<args, pc, exit_code, raised, level, relays, trace,
                   sleep_end, interrupts, absorbed, notes, failed_at>>
    /\ UNCHANGED webVars

\* raise SystemExit("probe requires at least one pin")
ExecExit ==
    /\ AtStep /\ Cur.op = "exit"
    /\ Raise("SystemExit")
    /\ UNCHANGED <<args, pc, level, relays, trace, uptime, interrupts,
                   absorbed, notes, failed_at>>
    /\ UNCHANGED webVars

\* return 0, then raise SystemExit(main(sys.argv[1:]))
Return ==
    /\ Running /\ pc = Len(Program) + 1
    /\ exit_code' = Some(ExitStatus("none"))
    /\ UNCHANGED <<args, pc, raised, level, relays, trace, uptime,
                   sleep_end, interrupts, absorbed, notes, failed_at>>
    /\ UNCHANGED webVars

(***************************************************************************)
(* SIGINT.  The handler throws KeyboardInterrupt into the running step.    *)
(* Only the try block of the indefinite-hold loop catches it (except       *)
(* KeyboardInterrupt: pass); from anywhere else it reaches __main__, which *)
(* prints "Interrupted" and raises SystemExit(130).                        *)
(***************************************************************************)
\* a handler whose except clause also covers the timer waits
InTry_covers_waits == pc <= Len(Program) /\ (Cur.op = "forever" \/ sleep_end # None)

InTry == pc <= Len(Program) /\ Cur.op = "forever"

Interrupt ==
    /\ Running /\ Len(interrupts) < MaxInterrupts
    /\ interrupts' = Append(interrupts,
            [pc |-> pc, waiting |-> sleep_end # None, caught |-> InTry])
    /\ IF InTry
       THEN /\ absorbed' = absorbed + 1
            /\ pc' = pc + 1
            /\ UNCHANGED <<exit_code, raised, sleep_end, notes>>
       ELSE /\ Raise("KeyboardInterrupt")
            /\ notes' = notes \cup {"Interrupted"}
            /\ UNCHANGED <<absorbed, pc>>
    /\ UNCHANGED <<args, level, relays, trace, uptime, failed_at>>
    /\ UNCHANGED webVars

Next ==
    \/ ExecCtor
    \/ ExecWrite
    \/ ExecSleep
    \/ SleepSlice
    \/ ExecGuard
    \/ ExecSay
    \/ ExecForever
    \/ ExecExit
    \/ Return
    \/ Interrupt

Spec == Init /\ [][Next]_vars

IsWrite(e) == e.op \in {"open", "close"}
HardwareOps(t) == SelectSeq(t, IsWrite)

(***************************************************************************)
(* web_ui.py.  Every CLI process the supervisor spawns runs fireplace.py   *)
(* against --main-relay low_flame; a child is its command line, the number *)
(* of relay writes it has done and its process state.  A child executes    *)
(* the writes of main() up to the indefinite-hold loop, where it stays     *)
(* until it is signalled: SIGTERM and SIGKILL are not handled by the CLI.  *)
(***************************************************************************)
ChildArgs(cmd, hold_seconds) ==
    Namespace(cmd, FALSE, IF hold_seconds = "" THEN None ELSE Some(MaxHold),
              5, FALSE, 0, TRUE)

RECURSIVE BeforeForever(_)
BeforeForever(prog) ==
    IF prog = << >> \/ Head(prog).op = "forever" THEN << >>
    ELSE << Head(prog) >> \o BeforeForever(Tail(prog))

HoldSecondsFields == {"", "5"}      \* the form field: blank, or a number
ChildCommands == {"ignite", "on", "off"}

\* per command line: the relay writes before the indefinite-hold loop, and
\* whether main() reaches that loop
ChildPrograms ==
    [cmd \in ChildCommands, h \in HoldSecondsFields |->
        LET prog == main(ChildArgs(cmd, h))
        IN  [writes |-> HardwareOps(BeforeForever(prog)),
             blocks |-> \E i \in DOMAIN prog : prog[i].op = "forever"]]

ChildWrites(c) == ChildPrograms[c.cmd, c.hold_seconds].writes
ChildBlocks(c) == ChildPrograms[c.cmd, c.hold_seconds].blocks

Pids == 1..Len(children)
Alive(p) == children[p].state \in {"running", "signalled"}     \* poll() is None
NewChild(cmd, hold_seconds) ==
    [cmd |-> cmd, hold_seconds |-> hold_seconds, done |-> 0,
     state |-> "running", returncode |-> None]

RunResult(action, code, output) ==
    [action |-> action, exit_code |-> code, output |-> output]

\* a process that has exited: only its return code is left
Exited(c, code) == [c EXCEPT !.state = "exited", !.returncode = Some(code), !.done = 0]

\* a child performs its next relay write
ChildStep(p) ==
    /\ p \in Pids /\ Alive(p)
    /\ children[p].done < Len(ChildWrites(children[p]))
    /\ chan' = Target(ChildWrites(children[p])[children[p].done + 1].op)
    /\ children' = [children EXCEPT ![p].done = @ + 1]
    /\ UNCHANGED <<lock, hold_proc, last_result, tpc, tlocal, served>>
    /\ UNCHANGED cliVars

\* main() returns 0 after its last write
ChildExit(p) ==
    /\ p \in Pids /\ children[p].state = "running"
    /\ children[p].done = Len(ChildWrites(children[p]))
    /\ ~ChildBlocks(children[p])
    /\ children' = [children EXCEPT ![p] = Exited(@, 0)]
    /\ UNCHANGED <<lock, hold_proc, last_result, chan, tpc, tlocal, served>>
    /\ UNCHANGED cliVars

\* Relay construction raises: the child ends before its first write
ChildFail(p) ==
    /\ p \in Pids /\ children[p].state = "running"
    /\ children[p].done = 0
    /\ children' = [children EXCEPT ![p] = Exited(@, 1)]
    /\ UNCHANGED <<lock, hold_proc, last_result, chan, tpc, tlocal, served>>
    /\ UNCHANGED cliVars

\* the default action of SIGTERM ends the child where it stands
ChildDie(p) ==
    /\ p \in Pids /\ children[p].state = "signalled"
    /\ children' = [children EXCEPT ![p] = Exited(@, -15)]
    /\ UNCHANGED <<lock, hold_proc, last_result, chan, tpc, tlocal, served>>
    /\ UNCHANGED cliVars

(***************************************************************************)
(* run_action                                                              *)
(***************************************************************************)
Goto(t, label) == tpc' = [tpc EXCEPT ![t] = label]
Finish(t) ==
    /\ tpc' = [tpc EXCEPT ![t] = "idle"]
    /\ tlocal' = [tlocal EXCEPT ![t] = NoLocals]

\* POST /run: the form is read and the branch on `action` taken
Accept(t, action, hold_seconds) ==
    /\ tpc[t] = "idle" /\ served < MaxRequests
    /\ \A u \in Threads : u < t => tpc[u] # "idle"     \* the first free worker
    /\ hold_seconds # "" => action = "start_hold"
    /\ served' = served + 1
    /\ tlocal' = [tlocal EXCEPT ![t] =
            [NoLocals EXCEPT !.action = action, !.hold_seconds = hold_seconds]]
    /\ Goto(t, action)
    /\ UNCHANGED <<lock, hold_proc, last_result, children, chan>>
    /\ UNCHANGED cliVars

\* _run_sync(action, argv): subprocess.run starts the child ...
RunSyncStart(t, label, cmd, next) ==
    /\ tpc[t] = label
    /\ children' = Append(children, NewChild(cmd, ""))
    /\ tlocal' = [tlocal EXCEPT ![t].pid = Len(children) + 1]
    /\ Goto(t, next)
    /\ UNCHANGED <<lock, hold_proc, last_result, chan, served>>
    /\ UNCHANGED cliVars

\* ... and returns its RunResult when the child has exited
RunSyncEnd(t, label, action, next) ==
    /\ tpc[t] = label
    /\ ~Alive(tlocal[t].pid)
    /\ tlocal' = [tlocal EXCEPT ![t].sync =
            Some(RunResult(action, children[tlocal[t].pid].returncode, "cli"))]
    /\ Goto(t, next)
    /\ UNCHANGED <<lock, hold_proc, last_result, children, chan, served>>
    /\ UNCHANGED cliVars

\* with _lock: _last_result = ...
StoreResult(t, label, result) ==
    /\ tpc[t] = label
    /\ lock = 0
    /\ last_result' = Some(result)
    /\ Finish(t)
    /\ UNCHANGED <<lock, hold_proc, children, chan, served>>
    /\ UNCHANGED cliVars

IgnitePulseRun(t) == RunSyncStart(t, "ignite_pulse", "ignite", "ignite_wait")
IgnitePulseDone(t) == RunSyncEnd(t, "ignite_wait", "ignite_pulse", "ignite_store")
IgnitePulseStore(t) ==
    /\ tlocal[t].sync # None
    /\ StoreResult(t, "ignite_store", tlocal[t].sync[1])

\* a start_hold that enters its block without taking the lock
StartHoldAcquire_unlocked(t) ==
    /\ tpc[t] = "start_hold"
    /\ Goto(t, "start_hold_locked")
    /\ UNCHANGED <<lock, hold_proc, last_result, children, chan, tlocal, served>>
    /\ UNCHANGED cliVars

\* start_hold: with _lock: (entered)
StartHoldAcquire(t) ==
    /\ tpc[t] = "start_hold"
    /\ lock = 0
    /\ lock' = t
    /\ Goto(t, "start_hold_locked")
    /\ UNCHANGED <<hold_proc, last_result, children, chan, tlocal, served>>
    /\ UNCHANGED cliVars

\* if _hold_proc is not None and _hold_proc.poll() is None: "already running",
\* and the with block is left
StartHoldCheck(t) ==
    /\ tpc[t] = "start_hold_locked"
    /\ IF hold_proc # None /\ Alive(hold_proc[1])
       THEN /\ last_result' = Some(RunResult("start_hold", Some(0), "already running"))
            /\ lock' = 0
            /\ Finish(t)
       ELSE /\ Goto(t, "start_hold_spawn")
            /\ UNCHANGED <<lock, last_result, tlocal>>
    /\ UNCHANGED <<hold_proc, children, chan, served>>
    /\ UNCHANGED cliVars

\* else: _hold_proc = subprocess.Popen(...), or the except branch; Popen does
\* not block; the with block is left
StartHold(t) ==
    /\ tpc[t] = "start_hold_spawn"
    /\ \/ /\ children' = Append(children, NewChild("on", tlocal[t].hold_seconds))
          /\ hold_proc' = Some(Len(children) + 1)
          /\ last_result' = Some(RunResult("start_hold", None, "started"))
       \/ /\ hold_proc' = None
          /\ last_result' = Some(RunResult("start_hold", None, "ERROR starting hold"))
          /\ UNCHANGED children
    /\ lock' = 0
    /\ Finish(t)
    /\ UNCHANGED <<chan, served>>
    /\ UNCHANGED cliVars

\* stop: with _lock: (entered)
StopAcquire(t) ==
    /\ tpc[t] = "stop"
    /\ lock = 0
    /\ lock' = t
    /\ Goto(t, "stop_locked")
    /\ UNCHANGED <<hold_proc, last_result, children, chan, tlocal, served>>
    /\ UNCHANGED cliVars

\* a stop that leaves the reference to an exited hold process in place
StopHoldLocked_keeps_ref(t) ==
    /\ tpc[t] = "stop_locked"
    /\ IF hold_proc = None \/ ~Alive(hold_proc[1])
       THEN /\ tlocal' = [tlocal EXCEPT ![t].result =
                    Some(RunResult("stop", Some(0), "not running"))]
            /\ Goto(t, "stop_release")
            /\ UNCHANGED <<hold_proc, children>>
       ELSE /\ children' = [children EXCEPT ![hold_proc[1]].state = "signalled"]
            /\ tlocal' = [tlocal EXCEPT ![t].pid = hold_proc[1]]
            /\ Goto(t, "stop_wait")
            /\ UNCHANGED hold_proc
    /\ UNCHANGED <<lock, last_result, chan, served>>
    /\ UNCHANGED cliVars

\* _stop_hold_locked up to proc.terminate()
StopHoldLocked(t) ==
    /\ tpc[t] = "stop_locked"
    /\ IF hold_proc = None \/ ~Alive(hold_proc[1])
       THEN /\ hold_proc' = None
            /\ tlocal' = [tlocal EXCEPT ![t].result =
                    Some(RunResult("stop", Some(0), "not running"))]
            /\ Goto(t, "stop_release")
            /\ UNCHANGED children
       ELSE /\ children' = [children EXCEPT ![hold_proc[1]].state = "signalled"]
            /\ tlocal' = [tlocal EXCEPT ![t].pid = hold_proc[1]]
            /\ Goto(t, "stop_wait")
            /\ UNCHANGED hold_proc
    /\ UNCHANGED <<lock, last_result, chan, served>>
    /\ UNCHANGED cliVars

\* a stop that clears the reference without waiting for the process to end
StopWait_no_wait(t) ==
    /\ tpc[t] = "stop_wait"
    /\ hold_proc' = None
    /\ tlocal' = [tlocal EXCEPT ![t].result = Some(RunResult("stop", Some(0), "stopped"))]
    /\ Goto(t, "stop_release")
    /\ UNCHANGED <<lock, last_result, children, chan, served>>
    /\ UNCHANGED cliVars

\* proc.wait(timeout=5) returns, or times out: proc.kill(); proc.wait(timeout=5);
\* then _hold_proc = None
StopWait(t) ==
    /\ tpc[t] = "stop_wait"
    /\ \/ /\ ~Alive(tlocal[t].pid)
          /\ UNCHANGED children
       \/ /\ Alive(tlocal[t].pid)
          /\ children' = [children EXCEPT ![tlocal[t].pid] = Exited(@, -9)]
    /\ hold_proc' = None
    /\ tlocal' = [tlocal EXCEPT ![t].result = Some(RunResult("stop", Some(0), "stopped"))]
    /\ Goto(t, "stop_release")
    /\ UNCHANGED <<lock, last_result, chan, served>>
    /\ UNCHANGED cliVars

\* _last_result = result, and the with block is left
StopRelease(t) ==
    /\ tpc[t] = "stop_release"
    /\ lock = t
    /\ last_result' = tlocal[t].result
    /\ lock' = 0
    /\ Goto(t, "stop_off")
    /\ UNCHANGED <<hold_proc, children, chan, tlocal, served>>
    /\ UNCHANGED cliVars

StopOffRun(t) == RunSyncStart(t, "stop_off", "off", "stop_off_wait")
StopOffDone(t) == RunSyncEnd(t, "stop_off_wait", "off", "stop_store")
\* exit_code=sync.exit_code; the output begins with result.output
StopStore(t) ==
    /\ tlocal[t].result # None /\ tlocal[t].sync # None
    /\ StoreResult(t, "stop_store",
            RunResult("stop", tlocal[t].sync[1].exit_code, tlocal[t].result[1].output))

UnknownAction(t) ==
    StoreResult(t, "unknown", RunResult("unknown", Some(1), "Unknown action"))

InitWeb ==
    /\ WebIdle
    /\ args = Namespace("off", FALSE, None, 5, FALSE, 0, TRUE)
    /\ uptime = 0
    /\ pc = 1
    /\ exit_code = None
    /\ raised = "none"
    /\ level = [p \in ChannelIds |-> "open"]
    /\ relays = {}
    /\ trace = << >>
    /\ sleep_end = None
    /\ interrupts = << >>
    /\ absorbed = 0
    /\ notes = {}
    /\ failed_at = None

NextWeb ==
    \/ \E t \in Threads, a \in Actions, h \in HoldSecondsFields : Accept(t, a, h)
    \/ \E t \in Threads : IgnitePulseRun(t)
    \/ \E t \in Threads : IgnitePulseDone(t)
    \/ \E t \in Threads : IgnitePulseStore(t)
    \/ \E t \in Threads : StartHoldAcquire(t)
    \/ \E t \in Threads : StartHoldCheck(t)
    \/ \E t \in Threads : StartHold(t)
    \/ \E t \in Threads : StopAcquire(t)
    \/ \E t \in Threads : StopHoldLocked(t)
    \/ \E t \in Threads : StopWait(t)
    \/ \E t \in Threads : StopRelease(t)
    \/ \E t \in Threads : StopOffRun(t)
    \/ \E t \in Threads : StopOffDone(t)
    \/ \E t \in Threads : StopStore(t)
    \/ \E t \in Threads : UnknownAction(t)
    \/ \E p \in Pids : ChildStep(p)
    \/ \E p \in Pids : ChildExit(p)
    \/ \E p \in Pids : ChildFail(p)
    \/ \E p \in Pids : ChildDie(p)

SpecWeb == InitWeb /\ [][NextWeb]_vars

(***************************************************************************)
(* Vocabulary of the properties                                            *)
(***************************************************************************)
Terminated == exit_code # None
Closes(t) == {i \in 1..Len(t) : t[i].op = "close"}
Waits(t) == {i \in 1..Len(t) : t[i].op = "sleep"}
GuardSteps == {i \in 1..Len(Program) : Program[i].op = "guard"}
PastGuard == \E i \in GuardSteps : pc > i
InGuardWait == pc \in GuardSteps /\ sleep_end # None
GuardWaited == "Boot guard: waiting" \in notes
GuardActive == args.boot_guard_seconds > 0 /\ args.uptime_readable
IndefiniteHold ==
    /\ args.hold_seconds = None
    /\ args.cmd \in {"on", "high"} \/ (args.cmd = "ignite" /\ args.maintained)
LandedOutsideTry(i) == i.pc > Len(Program) \/ Program[i.pc].op # "forever"
Uncaught == {k \in 1..Len(interrupts) : LandedOutsideTry(interrupts[k])}

\* C1: whenever an invocation terminates, normally or because of an interrupt,
\* every relay channel it touched is in the open state.
C1_FailSafeOnEveryExit ==
    (Terminated /\ raised \in {"none", "KeyboardInterrupt"})
        => \A p \in relays : level[p] = "open"

\* C2: in an indefinite hold (hold_seconds None), once the relay has been closed
\* an interrupt always leads to the trailing relay.open() before the invocation
\* exits.
C2_IndefiniteHoldOpensOnInterrupt ==
    (Terminated /\ IndefiniteHold /\ raised \in {"none", "KeyboardInterrupt"}
        /\ Closes(trace) # {})
        => /\ trace[Len(trace)].op = "open"
           /\ \A p \in relays : level[p] = "open"

C5_GuardGatesClose ==
    (args.cmd \in {"ignite", "on"} /\ GuardActive) =>
        /\ uptime < args.boot_guard_seconds => Closes(trace) = {}
        /\ InGuardWait => HardwareOps(trace) = << RelayOpen(main_pin(args).pin[1]) >>

C5_Witness ==
    /\ args.cmd \in {"ignite", "on"} /\ GuardActive
    /\ GuardWaited /\ Closes(trace) # {}
    /\ level[main_pin(args).pin[1]] = "closed"

\* C6 as stated: an off or low invocation never waits in the boot guard.
C6_OffLowNeverGuarded ==
    args.cmd \in {"off", "low"} => ~InGuardWait /\ ~GuardWaited

\* C6 as amended: a low invocation never waits in the boot guard, and the guard
\* runs only in ignite, on and off; an off invocation is guarded like ignite
\* and on: with a positive minimum and a readable uptime its open() after the
\* guard is not reached while uptime is below the minimum.
C6_LowNeverGuardedOffGuarded ==
    /\ args.cmd = "low" => (GuardSteps = {} /\ ~GuardWaited)
    /\ (InGuardWait \/ GuardWaited) => args.cmd \in {"ignite", "on", "off"}
    /\ (args.cmd = "off" /\ GuardActive)
            => /\ GuardSteps # {}
               /\ PastGuard => uptime >= args.boot_guard_seconds

C6_Witness ==
    /\ args.cmd = "off" /\ GuardActive /\ GuardWaited
    /\ PastGuard /\ Terminated /\ exit_code = Some(0)

\* C7: when a Relay construction fails, no relay has been closed and no timed
\* wait has been performed in that invocation, for every command including a
\* probe sweep.
C7_CtorFailureBeforeTiming ==
    raised = "HardwareUnavailableError"
        => (Closes(trace) = {} /\ Waits(trace) = {})

\* C8: when a hardware write fails mid-pattern, no further close and no wait
\* follows, exactly one trailing open() is attempted on the affected relay and
\* the invocation terminates with a failure status.
C8_BestEffortTrailingOpen ==
    (Terminated /\ failed_at # None /\ Closes(trace) # {}) =>
        /\ exit_code # Some(0)
        /\ Len(trace) = failed_at[1] + 1
        /\ trace[Len(trace)] = RelayOpen(trace[failed_at[1]].pin)

\* C9: an interrupt delivered while _sleep_with_sigint is waiting makes the
\* call return normally, so the statement following the wait is executed: the
\* invocation is not ended by KeyboardInterrupt at that wait.
C9_TimerAbsorbsInterrupt ==
    \A k \in 1..Len(interrupts) :
        interrupts[k].waiting
            => ~(Terminated /\ raised = "KeyboardInterrupt" /\ pc = interrupts[k].pc)

\* C10 as stated: with an unreadable uptime source and a positive minimum,
\* _guard_after_boot returns without waiting and prints the note that the guard
\* was skipped, in live and in dry-run mode.
C10_SkipNoteInBothModes ==
    (PastGuard /\ args.boot_guard_seconds > 0 /\ ~args.uptime_readable)
        => (~GuardWaited /\ SkipNote(TRUE) \subseteq notes)

\* C10 as amended: with an unreadable uptime source and a positive minimum,
\* _guard_after_boot returns without waiting in both modes; the note that the
\* guard was skipped is printed in dry-run mode only, and live mode skips the
\* guard silently.
C10_SkipNoteOnlyInDryRun ==
    (args.boot_guard_seconds > 0 /\ ~args.uptime_readable) =>
        /\ ~InGuardWait /\ ~GuardWaited
        /\ PastGuard => (SkipNote(TRUE) \subseteq notes <=> args.dry_run)
        /\ ~PastGuard => notes \cap SkipNote(TRUE) = {}

C10_Witness ==
    /\ PastGuard /\ args.boot_guard_seconds > 0 /\ ~args.uptime_readable
    /\ ~args.dry_run /\ notes = {} /\ Closes(trace) # {}

\* C4: under the supervisor, for any interleaving of ignite_pulse, start_hold
\* and stop requests, at most one CLI invocation is alive against the
\* low_flame channel at any time.
C4_ChannelExclusive == Cardinality({p \in Pids : Alive(p)}) <= 1

(***************************************************************************)
(* The operations a command handler issues: the trace of the invocation    *)
(* after what main() itself issues before dispatching (the fail-safe open  *)
(* and, when the boot guard waited, its wait).  probe has no such prefix.  *)
(***************************************************************************)
IsPrefix(s, t) == Len(s) <= Len(t) /\ s = SubSeq(t, 1, Len(s))
PrefixLen ==
    IF args.cmd = "probe" THEN 0 ELSE 1 + (IF GuardWaited THEN 1 ELSE 0)
CommandTrace == SubSeq(trace, PrefixLen + 1, Len(trace))
Undisturbed == interrupts = << >> /\ raised = "none"
MaintainedRun == args.cmd = "ignite" /\ args.maintained

\* C11: an uninterrupted cmd_maintained issues exactly open, wait(1.0), close,
\* wait(0.25), open, wait(0.25), close, wait(hold), open on its relay, with the
\* same three fixed waits for every pulse width and every hold duration: the
\* operations issued so far are always a prefix of that sequence, and are the
\* whole sequence once the run has terminated.
C11_MaintainedSequence ==
    (MaintainedRun /\ Undisturbed) =>
        LET relay == main_pin(args).pin[1]
            wait == IF args.hold_seconds = None THEN << >>
                    ELSE << Sleep(args.hold_seconds[1]) >>
            expected == << RelayOpen(relay), Sleep(MAINTAINED_OPEN),
                           RelayClose(relay), Sleep(MAINTAINED_CLOSE),
                           RelayOpen(relay), Sleep(MAINTAINED_REOPEN),
                           RelayClose(relay) >> \o wait \o << RelayOpen(relay) >>
        IN  /\ IsPrefix(CommandTrace, expected)
            /\ Terminated => CommandTrace = expected

C11_Witness ==
    /\ MaintainedRun /\ Undisturbed /\ Terminated
    /\ args.pulse_ms = 6 /\ args.hold_seconds = Some(MaxHold)
    /\ GuardWaited /\ ~args.dry_run
    /\ Len(CommandTrace) = 9

\* a wait of zero seconds is no operation: _sleep_with_sigint(0) returns at once
DropZeroWaits(t) == SelectSeq(t, LAMBDA e : ~(e.op = "sleep" /\ e.secs = 0))

RECURSIVE Sweep(_, _, _, _)
Sweep(pins, open_seconds, close_for, post_open_seconds) ==
    IF pins = << >> THEN << >>
    ELSE << RelayOpen(Head(pins)), Sleep(open_seconds),
            RelayClose(Head(pins)), Sleep(close_for),
            RelayOpen(Head(pins)), Sleep(post_open_seconds) >>
         \o Sweep(Tail(pins), open_seconds, close_for, post_open_seconds)

ProbeRun ==
    /\ args.cmd = "probe"
    /\ parse_pins(args.pins) # None
    /\ args.pins # << >>

AllIdle == \A t \in Threads : tpc[t] = "idle"
LiveHolds == {p \in Pids : children[p].cmd = "on" /\ Alive(p)}
OffCodes == {children[p].returncode : p \in {q \in Pids : children[q].cmd = "off"}}
\* the last request to finish was a stop that found no hold process running
StoppedNothing ==
    /\ AllIdle
    /\ last_result # None
    /\ last_result[1].action = "stop"
    /\ last_result[1].output = "not running"

LockedLabels ==
    {"start_hold_locked", "start_hold_spawn", "stop_locked", "stop_wait",
     "stop_release"}
HoldRunning == hold_proc # None /\ Alive(hold_proc[1])

\* C14: for any interleaving of concurrent start_hold and stop requests at most
\* one hold process is alive at any time, and it is the one the shared reference
\* names; a start_hold that finds the hold running spawns no process and leaves
\* the reference unchanged; and the shared hold reference is read and written
\* only by a request that holds the lock.
C14_SingleHold ==
    /\ [](/\ Cardinality(LiveHolds) <= 1
          /\ \A p \in LiveHolds : hold_proc = Some(p)
          /\ \A t \in Threads : tpc[t] \in LockedLabels => lock = t)
    /\ [][/\ hold_proc' # hold_proc =>
                /\ lock \in Threads
                /\ tpc[lock] \in LockedLabels
                /\ tpc'[lock] # tpc[lock]
           /\ \A t \in Threads :
                (tpc[t] = "start_hold_locked" /\ tpc'[t] # tpc[t] /\ HoldRunning)
                    => /\ children' = children
                       /\ hold_proc' = hold_proc
                       /\ tpc'[t] = "idle"]_vars

\* a start_hold has just found the hold running while another request waits
\* for the lock
C14_Witness ==
    /\ last_result # None
    /\ last_result[1].output = "already running"
    /\ Cardinality(LiveHolds) = 1
    /\ HoldRunning
    /\ \E t \in Threads : tpc[t] \in {"start_hold", "stop"}

\* the four channel references of the command line
References == {args.main_relay, args.pin_main, args.high_relay, args.pin_high}
\* main() has evaluated its two resolution statements
ResolutionDone == args.cmd # "probe" /\ (pc > 1 \/ Terminated)

\* C15: whatever reference _resolve_relay_ref is given (canonical name, alias,
\* integer, numeric string, a negative one included), a channel id it returns is
\* a non-negative integer; so is every channel a Relay is constructed for.
C15_ResolvedNonNegative ==
    ResolutionDone =>
        /\ \A ref \in References :
              resolve_relay_ref(ref).pin # None => resolve_relay_ref(ref).pin[1] >= 0
        /\ \A p \in relays : p >= 0

\* a reference that is neither absent (None or blank) nor an alias, a canonical
\* name or an integer literal
Unresolvable(ref) ==
    /\ ref.kind = "str"
    /\ strip(ref.s) \notin RelayNames \cup DOMAIN IntLiterals \cup {""}
UnknownGiven == \E ref \in References : Unresolvable(ref)
BadProbePin ==
    args.cmd = "probe" /\ \E i \in DOMAIN args.pins : Unresolvable(StrRef(args.pins[i]))
\* the invocation is an error exit and nothing else: no Relay is constructed,
\* no write or wait is issued, no relay level changes
RejectedAtBoundary ==
    /\ Program = SystemExit
    /\ relays = {}
    /\ trace = << >>
    /\ sleep_end = None
    /\ \A p \in ChannelIds : level[p] = "open"
    /\ Terminated => (raised \in {"SystemExit", "KeyboardInterrupt"}
                        /\ exit_code # Some(0))

\* C16 as stated: an unresolvable channel reference makes the invocation, whatever
\* its command, terminate with an error before any relay handle is constructed
\* and before any hardware write or wait; no relay state is changed.
C16_UnknownReferenceRejected ==
    (UnknownGiven \/ BadProbePin) => RejectedAtBoundary

\* C16 as amended: for every command other than probe an unresolvable
\* --main-relay or --high-relay, and for probe an unresolvable entry of --pins,
\* makes the invocation terminate with an error before any relay handle is
\* constructed and before any hardware write or wait (probe never resolves
\* --main-relay / --high-relay).
C16_UnknownReferenceRejectedOutsideProbe ==
    ((args.cmd # "probe" /\ UnknownGiven) \/ BadProbePin) => RejectedAtBoundary

C16_Witness ==
    /\ args.cmd = "off" /\ ~args.dry_run
    /\ Unresolvable(args.high_relay) /\ ~Unresolvable(args.main_relay)
    /\ resolve_relay_ref(args.main_relay).pin = Some(4)
    /\ Terminated /\ raised = "SystemExit" /\ exit_code = Some(1)

\* C17: "Wait until system uptime >= this value before any closure": with a
\* positive boot guard G and a readable uptime, no command that closes a relay
\* (ignite, on, high, pulse-high, probe) has issued a close() while uptime is
\* below G.
C17_GuardCoversEveryClosure ==
    (args.cmd \in {"ignite", "on", "high", "pulse-high", "probe"} /\ GuardActive)
        => (uptime < args.boot_guard_seconds => Closes(trace) = {})

PulseRun == (args.cmd = "ignite" /\ ~args.maintained) \/ args.cmd = "pulse-high"

\* C18: an uninterrupted cmd_pulse issues exactly open, close, wait(pulse width),
\* open on its relay: exactly one close, and between that close and the final
\* open nothing but the wait.
C18_PulseSequence ==
    (PulseRun /\ Undisturbed) =>
        LET relay == IF args.cmd = "ignite" THEN main_pin(args).pin[1]
                     ELSE high_pin(args).pin[1]
            expected == << RelayOpen(relay), RelayClose(relay),
                           Sleep(args.pulse_ms), RelayOpen(relay) >>
        IN  /\ IsPrefix(CommandTrace, expected)
            /\ Terminated => /\ CommandTrace = expected
                             /\ Cardinality(Closes(trace)) = 1

C18_Witness ==
    /\ args.cmd = "pulse-high" /\ Undisturbed /\ Terminated
    /\ args.pulse_ms = 6 /\ ~args.dry_run
    /\ Len(CommandTrace) = 4
    /\ uptime > MaxGuard

\* cmd_hold and cmd_maintained: the hold wait is their last step but one, the
\* final open their last
HoldRun == args.cmd \in {"on", "high"} \/ MaintainedRun
HoldWaitStep == Len(Program) - 1
InZeroHoldWait ==
    /\ HoldRun /\ args.hold_seconds = Some(0)
    /\ AtStep /\ pc = HoldWaitStep

\* C19: with hold_seconds = 0 cmd_hold and cmd_maintained perform no wait: the
\* timer of the hold wait has no time remaining and no step taken in it advances
\* the clock, so the final open follows the close at once, without any
\* interrupt; with hold_seconds None the final open is reached only after an
\* interrupt has been delivered to, and caught by, the indefinite-hold loop.
C19_HoldEdgeCases ==
    /\ [](/\ (InZeroHoldWait /\ sleep_end # None) => sleep_end[1] <= uptime
          /\ (IndefiniteHold /\ pc > HoldWaitStep)
                => (absorbed >= 1 /\ interrupts # << >>))
    /\ [][InZeroHoldWait => uptime' = uptime]_vars

\* a run with hold_seconds = 0 has ended, uninterrupted, with close, wait(0),
\* open, the clock where it was when the command was dispatched
C19_Witness ==
    /\ args.cmd = "on" /\ args.hold_seconds = Some(0) /\ ~args.dry_run
    /\ Undisturbed /\ Terminated /\ exit_code = Some(0)
    /\ ~GuardWaited /\ uptime \in UptimeChoices
    /\ CommandTrace = << RelayOpen(4), RelayClose(4), Sleep(0), RelayOpen(4) >>

\* the invocation was given an alias as its --main-relay
AliasGiven ==
    /\ args.cmd = "off"
    /\ args.main_relay.kind = "str"
    /\ args.main_relay.s \in DOMAIN RELAY_ALIASES

\* C20: every alias maps to a name of the canonical table, resolving an alias
\* gives the channel that resolving its canonical name gives, and an invocation
\* given an alias constructs its Relay for, and writes to, that channel only.
C20_AliasEquivalence ==
    /\ \A A \in DOMAIN RELAY_ALIASES :
          /\ RELAY_ALIASES[A] \in DOMAIN KNOWN_RELAYS
          /\ resolve_relay_ref(StrRef(A)) = resolve_relay_ref(StrRef(RELAY_ALIASES[A]))
    /\ AliasGiven =>
          LET canonical == resolve_relay_ref(StrRef(RELAY_ALIASES[args.main_relay.s]))
          IN  /\ canonical.pin # None
              /\ relays \subseteq {canonical.pin[1]}
              /\ \A i \in DOMAIN trace : IsWrite(trace[i]) => trace[i].pin = canonical.pin[1]
              /\ (Terminated /\ raised = "none") => relays = {canonical.pin[1]}

C20_Witness ==
    /\ AliasGiven
    /\ args.main_relay = StrRef("relay_gpio26")
    /\ Terminated /\ raised = "none"
    /\ relays = {26}
    /\ trace = << RelayOpen(26), RelayOpen(26) >>

\* the interrupts delivered while no timer wait and no indefinite-hold loop
\* was running ...
\* ... between a hardware write and the wait that follows it, or between a
\* wait and the write that follows it
LandedBetween(i) ==
    /\ i.pc \in 2..Len(Program)
    /\ \/ Program[i.pc].op = "sleep" /\ IsWrite(Program[i.pc - 1])
       \/ IsWrite(Program[i.pc]) /\ Program[i.pc - 1].op = "sleep"
OutsideWaits == {k \in 1..Len(interrupts) :
                    /\ ~interrupts[k].waiting /\ ~interrupts[k].caught
                    /\ LandedBetween(interrupts[k])}

\* C21: an interrupt is acted upon only inside a timer wait: one delivered at any
\* other point does not divert control flow there, so the invocation is never
\* ended by KeyboardInterrupt at the step where such an interrupt landed, and the
\* steps up to the next wait are not skipped.
C21_InterruptActedOnOnlyInWaits ==
    \A k \in OutsideWaits :
        ~(Terminated /\ raised = "KeyboardInterrupt" /\ pc = interrupts[k].pc)

ClosedChannels == {p \in ChannelIds : level[p] = "closed"}
\* the writes issued to channel q before trace[i]
WritesBefore(q, i) == {j \in 1..(i - 1) : IsWrite(trace[j]) /\ trace[j].pin = q}
LastOf(S) == CHOOSE j \in S : \A m \in S : m <= j

\* C22: during a probe sweep, at every point of the execution, interrupted or
\* failed runs included, at most one channel is in the closed state; when a
\* channel is closed, the last write to every other channel was an open; and
\* the channels are closed in list order.
C22_ProbeOneClosedAtATime ==
    ProbeRun =>
        /\ Cardinality(ClosedChannels) <= 1
        /\ \A i \in Closes(trace) : \A q \in ChannelIds \ {trace[i].pin} :
              WritesBefore(q, i) # {} => trace[LastOf(WritesBefore(q, i))].op = "open"
        /\ LET closed == SelectSeq(trace, LAMBDA e : e.op = "close")
           IN  \A i \in DOMAIN closed : closed[i].pin = parse_pins(args.pins)[1][i]

\* the sweep was interrupted with its second channel closed
C22_Witness ==
    /\ ProbeRun /\ ~args.dry_run
    /\ args.pins = << "4", "22" >>
    /\ Terminated /\ raised = "KeyboardInterrupt"
    /\ level[4] = "open" /\ level[22] = "closed"

GuardInterrupted ==
    \E k \in 1..Len(interrupts) :
        interrupts[k].waiting /\ interrupts[k].pc \in GuardSteps

\* C23: an interrupt delivered while an ignite or on invocation waits in the boot
\* guard terminates the invocation without the relay ever having been closed:
\* the only hardware operation issued is the fail-safe open(), and the relay is
\* in the open state at exit.
C23_GuardInterruptNeverCloses ==
    (args.cmd \in {"ignite", "on"} /\ GuardInterrupted) =>
        /\ Terminated /\ raised = "KeyboardInterrupt"
        /\ Closes(trace) = {}
        /\ HardwareOps(trace) = << RelayOpen(main_pin(args).pin[1]) >>
        /\ failed_at = None
        /\ level[main_pin(args).pin[1]] = "open"

C23_Witness ==
    /\ args.cmd = "on" /\ ~args.dry_run /\ args.hold_seconds = None
    /\ GuardInterrupted /\ Terminated
    /\ uptime > 0 /\ uptime < args.boot_guard_seconds
    /\ level[4] = "open"

(***************************************************************************)
(* The supervisor serving one request at a time (a server that is not      *)
(* threaded): a request is accepted only when no other is in run_action.   *)
(* The hold process still runs concurrently with the requests.             *)
(***************************************************************************)
AcceptOneAtATime(t, action, hold_seconds) ==
    /\ AllIdle
    /\ Accept(t, action, hold_seconds)

NextWebSeq ==
    \/ \E t \in Threads, a \in Actions, h \in HoldSecondsFields :
            AcceptOneAtATime(t, a, h)
    \/ \E t \in Threads : IgnitePulseRun(t)
    \/ \E t \in Threads : IgnitePulseDone(t)
    \/ \E t \in Threads : IgnitePulseStore(t)
    \/ \E t \in Threads : StartHoldAcquire(t)
    \/ \E t \in Threads : StartHoldCheck(t)
    \/ \E t \in Threads : StartHold(t)
    \/ \E t \in Threads : StopAcquire(t)
    \/ \E t \in Threads : StopHoldLocked(t)
    \/ \E t \in Threads : StopWait(t)
    \/ \E t \in Threads : StopRelease(t)
    \/ \E t \in Threads : StopOffRun(t)
    \/ \E t \in Threads : StopOffDone(t)
    \/ \E t \in Threads : StopStore(t)
    \/ \E t \in Threads : UnknownAction(t)
    \/ \E p \in Pids : ChildStep(p)
    \/ \E p \in Pids : ChildExit(p)
    \/ \E p \in Pids : ChildFail(p)
    \/ \E p \in Pids : ChildDie(p)

SpecWebSeq == InitWeb /\ [][NextWebSeq]_vars

\* the last request to finish was a stop recorded with exit_code 0
StopSucceeded ==
    /\ AllIdle
    /\ last_result # None
    /\ last_result[1].action = "stop"
    /\ last_result[1].exit_code = Some(0)
LiveOffs == {p \in Pids : children[p].cmd = "off" /\ Alive(p)}

Preferred == IF needs_main(args) THEN args.main_relay ELSE args.high_relay
Legacy == IF needs_main(args) THEN args.pin_main ELSE args.pin_high

\* C25: whenever the preferred reference (--main-relay, resp. --high-relay)
\* resolves to a channel n, n = 0 included, the command is not rejected and the
\* only relay it constructs and drives is channel n; the legacy --pin-main
\* (resp. --pin-high) value is used only when the preferred reference is absent
\* or empty.
C25_PreferredReferenceWins ==
    (args.cmd # "probe" /\ ~UnknownGiven /\ resolve_relay_ref(Preferred).pin # None) =>
        LET n == resolve_relay_ref(Preferred).pin[1]
        IN  /\ relays \subseteq {n}
            /\ \A i \in DOMAIN trace : IsWrite(trace[i]) => trace[i].pin = n
            /\ raised # "SystemExit"
====
